---- MODULE Spec2Model ----
(***************************************************************************)
(* Model of S2-group/android-app-search:                                   *)
(*   - util/ratelimited_github.py  the rate-limit guard of the API wrapper *)
(*   - util/github_repo.py         Repo.count_commits, RepoVerifier        *)
(*   - find_gradle_files.py        code search and file download           *)
(*   - github_package_match.py     matching of packages and repositories   *)
(* Strings the code parses (URLs, header values, metadata text) are        *)
(* sequences of one-character strings, so that parsing is computed.        *)
(***************************************************************************)
EXTENDS Integers, Sequences, FiniteSets, TLC

(***************************************************************************)
(* Bounds of the model.                                                    *)
(***************************************************************************)
\* quota of one window of a resource class
Limit == 2
\* length of a quota window, in seconds
Window == 2
\* POSIX time when the program starts
Epoch == 10
\* the clock of the model stops MaxClock seconds later
MaxClock == 4
\* page size of the commit listing (per_page)
PerPage == 2
\* the local clock's offset from UTC is -TzShift or 0
TzShift == 2
\* results of one code-search page
MaxResults == 1
\* levels of containers of a parsed JSON value
MaxDepth == 2
\* rows of an input list
MaxRows == 2
\* downloads started for one row of the repository list
MaxTries == 2

(***************************************************************************)
(* Text: decimal numbers as strings.                                       *)
(***************************************************************************)
DigitChars == <<"0", "1", "2", "3", "4", "5", "6", "7", "8", "9">>

DigitSet == {DigitChars[i] : i \in 1..10}

DigitValue(c) == (CHOOSE i \in 1..10 : DigitChars[i] = c) - 1

RECURSIVE Str(_)
\* str(n) of a natural number
Str(n) == IF n < 10 THEN <<DigitChars[n + 1]>>
          ELSE Str(n \div 10) \o <<DigitChars[(n % 10) + 1]>>

\* int(s) raises ValueError unless s is a decimal literal
IsDecimal(s) == Len(s) > 0 /\ \A i \in 1..Len(s) : s[i] \in DigitSet

RECURSIVE IntOf(_)
\* int(s) of a decimal literal
IntOf(s) == IF Len(s) = 0 THEN 0
            ELSE 10 * IntOf(SubSeq(s, 1, Len(s) - 1)) + DigitValue(s[Len(s)])

\* the letters a-z and A-Z
LowerChars == {"a", "b", "c", "d", "e", "f", "g", "h", "i", "j", "k", "l", "m",
               "n", "o", "p", "q", "r", "s", "t", "u", "v", "w", "x", "y", "z"}

UpperChars == {"A", "B", "C", "D", "E", "F", "G", "H", "I", "J", "K", "L", "M",
               "N", "O", "P", "Q", "R", "S", "T", "U", "V", "W", "X", "Y", "Z"}

\* the index after the longest run of characters of S that starts at s[i]
RECURSIVE RunOf(_, _, _)
RunOf(S, s, i) == IF i <= Len(s) /\ s[i] \in S THEN RunOf(S, s, i + 1) ELSE i

(***************************************************************************)
(* The host: quota per resource class, responses.                          *)
(***************************************************************************)
CORE_RESOURCE == "core"
SEARCH_RESOURCE == "search"
GRAPHQL_RESOURCE == "graphql"
Resources == {CORE_RESOURCE, SEARCH_RESOURCE, GRAPHQL_RESOURCE}

RATELIMIT_LIMIT_HEADER == "X-RateLimit-Limit"
RATELIMIT_REMAINING_HEADER == "X-RateLimit-Remaining"
RATELIMIT_RESET_HEADER == "X-RateLimit-Reset"

\* the quota of one resource class at time t: a window that has ended is refilled
Refill(q, t) == IF t >= q.reset
                THEN [limit |-> q.limit, remaining |-> q.limit, reset |-> t + Window]
                ELSE q

RefillAll(qs, t) == [r \in Resources |-> Refill(qs[r], t)]

\* the host serves a request of resource class r when quota is left, else 403
Served(qs, r) == qs[r].remaining >= 1

Consume(qs, r) == IF Served(qs, r)
                  THEN [qs EXCEPT ![r].remaining = @ - 1]
                  ELSE qs

\* the rate headers of a response to a request of class r, after it was counted
RateHeaders(qs, r) ==
    (RATELIMIT_LIMIT_HEADER :> Str(qs[r].limit))
    @@ (RATELIMIT_REMAINING_HEADER :> Str(qs[r].remaining))
    @@ (RATELIMIT_RESET_HEADER :> Str(qs[r].reset))

NoHeaders == << >>

\* an object that has no last_response yet (None, or no such attribute)
NoResponse == [exists |-> FALSE, ok |-> FALSE, headers |-> NoHeaders,
               last |-> <<>>, items |-> 0]

\* a response: ok is requests' truth value of a Response (status below 400),
\* last is the query of the rel="last" link (empty when there is none)
Response(status, headers, last, items) ==
    [exists |-> TRUE, ok |-> status < 400, headers |-> headers,
     last |-> last, items |-> items]

VARIABLES
    clock,          \* POSIX time, in seconds
    tz,             \* utcoffset of the local time zone, in seconds
    quota,          \* the host's quota of each resource class
    last_request,   \* the request that reached the host last
    pc,             \* what the program is in the middle of
    page_iterator,  \* the iterator count_commits works with
    search_iter,    \* the code search iter_gradle_files works with
    last_guard,     \* the run of _wait_for_ratelimit in the latest step, if any
    result          \* how the last operation ended

(***************************************************************************)
(* util/ratelimited_github.py: the guard.                                  *)
(***************************************************************************)
\* the attribute looked up under a name no object has
HasResponse_Never(lr) == FALSE

\* RateLimitedGitHub._has_response
HasResponse(lr) == lr.exists /\ lr.ok

\* RateLimitedGitHub._response_has_ratelimit_headers
ResponseHasRatelimitHeaders(lr) ==
    /\ lr.exists /\ lr.ok
    /\ DOMAIN lr.headers /= {}
    /\ RATELIMIT_RESET_HEADER \in DOMAIN lr.headers
    /\ RATELIMIT_LIMIT_HEADER \in DOMAIN lr.headers
    /\ RATELIMIT_REMAINING_HEADER \in DOMAIN lr.headers

\* a ratelimit dict: the keys it has, and int() of the two values the guard reads
Ratelimit(keys, remaining, reset) ==
    [keys |-> keys, remaining |-> remaining, reset |-> reset]

\* RateLimitedGitHub._get_ratelimit_from_headers
GetRatelimitFromHeaders(lr) ==
    Ratelimit({"limit", "remaining", "reset"},
              IntOf(lr.headers[RATELIMIT_REMAINING_HEADER]),
              IntOf(lr.headers[RATELIMIT_RESET_HEADER]))

\* the replies of GET /rate_limit: the resource's entry, no entry, a failure
QuotaReplies == {"entry", "noentry", "error"}

\* a failure of the query swallowed
QueryRaises_Never(reply) == FALSE

\* json['resources'][resource] in place of the two get: no entry is a KeyError
QueryRaises_NoEntry(reply) == reply /= "entry"

\* RateLimitedGitHub._get_ratelimit, line 72: self._json(self._session.get(uri), 200)
\* raises when the query fails
QueryRaises(reply) == reply = "error"

\* RateLimitedGitHub._get_ratelimit: json.get('resources', {}).get(resource, {})
GetRatelimit(reply, qs, resource) ==
    IF reply = "entry"
    THEN Ratelimit({"limit", "remaining", "reset"},
                   qs[resource].remaining, qs[resource].reset)
    ELSE Ratelimit({}, 0, 0)

\* int(datetime.utcnow().timestamp()): the naive UTC time read as local time
Now(clk, tzv) == clk - tzv

\* wait_time = reset - now
WaitTime_NoMargin(reset, now) == reset - now

\* wait_time = reset - now + 1
WaitTime(reset, now) == reset - now + 1

\* time.sleep(wait_time) if wait_time > 0
SleepFor(wait_time) == IF wait_time > 0 THEN wait_time ELSE 0

\* RateLimitedGitHub._wait_for_ratelimit(resource) of an object whose
\* last_response is lr: whether it raised, how long it slept, and where it
\* read the quota (the headers of lr, or the reply of GET /rate_limit)
WaitForRatelimit(lr, reply, qs, clk, tzv, resource) ==
    LET from_headers == HasResponse(lr) /\ ResponseHasRatelimitHeaders(lr)
        raised == ~from_headers /\ QueryRaises(reply)
        ratelimit == IF from_headers THEN GetRatelimitFromHeaders(lr)
                     ELSE GetRatelimit(reply, qs, resource)
        remaining == IF "remaining" \in ratelimit.keys
                     THEN ratelimit.remaining ELSE 0
        reset == IF "reset" \in ratelimit.keys THEN ratelimit.reset ELSE 0
        slept == IF raised \/ remaining >= 1 THEN 0
                 ELSE SleepFor(WaitTime(reset, Now(clk, tzv)))
    IN  [raised |-> raised, slept |-> slept,
         quota_from |-> IF from_headers THEN "headers" ELSE reply,
         keys |-> IF raised THEN {} ELSE ratelimit.keys,
         remaining |-> IF raised THEN 0 ELSE remaining,
         reset |-> IF raised THEN 0 ELSE reset,
         now |-> Now(clk, tzv)]

\* the resource class _get hands to the guard: none, so the default
GuardResource == CORE_RESOURCE

\* one entry of the request log
Entry(kind, resource, guarded, g, qs) ==
    [kind |-> kind, resource |-> resource, guarded |-> guarded,
     quota_from |-> g.quota_from, slept |-> g.slept,
     remaining |-> qs[resource].remaining,
     status |-> IF Served(qs, resource) THEN 200 ELSE 403,
     rate_headers |-> TRUE, target |-> <<>>]

\* no request has reached the host yet
NoRequest == [kind |-> "none", resource |-> CORE_RESOURCE, guarded |-> TRUE,
              quota_from |-> "none", slept |-> 0, remaining |-> Limit,
              status |-> 0, rate_headers |-> FALSE, target |-> <<>>]

\* the log after a call that sent the requests of log
Logged(log, before) == IF Len(log) = 0 THEN before ELSE log[Len(log)]

NoGuard == [raised |-> FALSE, slept |-> 0, quota_from |-> "none", keys |-> {},
            remaining |-> 0, reset |-> 0, now |-> 0]

\* no run of the guard yet
NoGuardRun == [ran |-> FALSE, kind |-> "none", page |-> "none", guard |-> NoGuard,
               sent |-> FALSE, heard |-> FALSE, heard_remaining |-> 0]

\* the run g of the guard before a request of kind, and what the client
\* had received before it: whether its most recent response carried the rate
\* headers, and the remaining quota they named
GuardRun(g, kind, page, before) ==
    [ran |-> TRUE, kind |-> kind, page |-> page, guard |-> g,
     sent |-> ~g.raised,
     heard |-> before.kind /= "none" /\ before.rate_headers,
     heard_remaining |-> IF before.kind = "none" \/ ~before.rate_headers THEN 0
                         ELSE IF before.status = 200 THEN before.remaining - 1
                         ELSE before.remaining]

\* RateLimitedGitHub._get of an object whose last_response is lr, for a
\* request of class resource: the guard, then self._session.get
Get(lr, reply, qs, clk, tzv, kind, resource) ==
    LET g == WaitForRatelimit(lr, reply, qs, clk, tzv, GuardResource)
        t == clk + g.slept
        q1 == RefillAll(qs, t)
    IN  [raised |-> g.raised, clock |-> t, guard |-> g,
         quota |-> IF g.raised THEN q1 ELSE Consume(q1, resource),
         served |-> ~g.raised /\ Served(q1, resource),
         headers |-> RateHeaders(Consume(q1, resource), resource),
         log |-> IF g.raised THEN <<>>
                 ELSE <<Entry(kind, resource, TRUE, g, q1)>>]

\* GitHubCore._get of github3, which the classes the wrapper does not
\* replace still use: self._session.get without the guard
PlainGet(qs, clk, kind, resource) ==
    LET q1 == RefillAll(qs, clk)
    IN  [raised |-> FALSE, clock |-> clk,
         quota |-> Consume(q1, resource),
         served |-> Served(q1, resource),
         headers |-> RateHeaders(Consume(q1, resource), resource),
         log |-> <<Entry(kind, resource, FALSE, NoGuard, q1)>>]

(***************************************************************************)
(* util/github_repo.py: Repo.count_commits.                                *)
(* A URL is modelled by its query: a sequence of <<key, value>> pairs.     *)
(***************************************************************************)
\* the exceptions of the model, and a returned value
Raised(exc) == [exc |-> exc, value |-> 0]
Returned(v) == [exc |-> "none", value |-> v]

\* parse_qs(urlparse(url).query).get('page', ['1']): blank values are dropped
PageArg(query) ==
    LET given == SelectSeq(query, LAMBDA kv : kv[1] = "page" /\ Len(kv[2]) > 0)
    IN  IF Len(given) = 0 THEN << <<"1">> >>
        ELSE [i \in 1..Len(given) |-> given[i][2]]

\* Repo._parse_num_pages
ParseNumPages(query) ==
    LET page_arg == PageArg(query)
    IN  IF Len(page_arg) < 1 THEN Returned(1)
        ELSE IF IsDecimal(page_arg[1]) THEN Returned(IntOf(page_arg[1]))
        ELSE Raised("ValueError")

\* the host: number of pages of a listing of n items
NumPagesOf(n) == IF n = 0 THEN 1 ELSE (n + PerPage - 1) \div PerPage

\* the host: number of items on page k of a listing of n items
ItemsOnPage(n, k) ==
    LET first == PerPage * (k - 1)
    IN  IF k < 1 \/ first >= n THEN 0
        ELSE IF n - first > PerPage THEN PerPage ELSE n - first

\* the host: the page a URL asks for (page 1 unless it names one)
PageAsked(query) ==
    LET r == ParseNumPages(query)
    IN  IF r.exc = "none" /\ r.value >= 1 THEN r.value ELSE 1

\* the rel="last" links a first response may carry for a listing of n items:
\* the host's own (none for a single page), and links whose page is unusable
LinkShapes == {"host", "nopage", "blank", "alpha"}

PerPageParam == <<"per_page", Str(PerPage)>>

LastLink(shape, n) ==
    CASE shape = "host" -> IF NumPagesOf(n) > 1
                           THEN <<PerPageParam, <<"page", Str(NumPagesOf(n))>> >>
                           ELSE <<>>
      [] shape = "nopage" -> <<PerPageParam>>
      [] shape = "blank" -> <<PerPageParam, <<"page", <<>> >> >>
      [] shape = "alpha" -> <<PerPageParam, <<"page", <<"x">> >> >>

\* the last page fetched also when the first page is the last
FetchesLastPage_Always(num_pages) == TRUE

\* whether count_commits fetches a last page after this first response
FetchesLastPage(num_pages) == num_pages /= 1

\* count_per_page * (num_pages - 1) + count_last_page
CountFormula(count_per_page, num_pages, count_last_page) ==
    count_per_page * (num_pages - 1) + count_last_page

NoIterator == [last_response |-> NoResponse, commits |-> 0, shape |-> "host",
               fetched |-> 0, hdrs |-> FALSE]

\* the iterator of a call of count_commits that has ended, after sent more
\* requests: the call's repository and its number of requests are kept
Dropped(it, sent) == [it EXCEPT !.last_response = NoResponse, !.fetched = @ + sent]

NoSearch == [pending |-> <<>>, more |-> FALSE]

Idle == [op |-> "none", exc |-> "none", value |-> 0]

Ended(op, r) == [op |-> op, exc |-> r.exc, value |-> r.value]

\* the commit counts of the repositories of the model
CommitCounts == {0, 1, PerPage, PerPage + 1, 2 * PerPage, 2 * PerPage + 1}

\* count_commits, lines 125-127: iter_commits and next(), which sends the
\* request of the first page through the iterator's _get
CountCommitsFirst(n, shape, reply, hdrs) ==
    /\ pc = "idle"
    /\ LET r == Get(NoResponse, reply, quota, clock, tz, "commits", CORE_RESOURCE)
           items == ItemsOnPage(n, 1)
           resp == Response(IF r.served THEN 200 ELSE 403,
                            IF hdrs THEN r.headers ELSE NoHeaders,
                            IF r.served THEN LastLink(shape, n) ELSE <<>>,
                            IF r.served THEN items ELSE 0)
           it == [last_response |-> IF r.raised \/ ~r.served \/ items = 0
                                    THEN NoResponse ELSE resp,
                  commits |-> n, shape |-> shape,
                  fetched |-> Len(r.log), hdrs |-> hdrs]
       IN  /\ r.clock <= Epoch + MaxClock
           /\ clock' = r.clock
           /\ quota' = r.quota
           /\ last_request' = IF Len(r.log) = 0 THEN last_request
                              ELSE [r.log[1] EXCEPT !.rate_headers = hdrs]
           /\ last_guard' = GuardRun(r.guard, "commits", "first", last_request)
           /\ page_iterator' = it
           /\ IF r.raised \/ ~r.served
              THEN /\ pc' = "idle"
                   /\ result' = Ended("count_commits", Raised("GitHubError"))
              ELSE IF items = 0
              THEN /\ pc' = "idle"
                   /\ result' = Ended("count_commits", Raised("StopIteration"))
              ELSE /\ pc' = "counting"
                   /\ result' = Idle
    /\ UNCHANGED <<tz, search_iter>>

\* count_commits, lines 129-143: the last link, the last page, the count
CountCommitsLast(reply) ==
    /\ pc = "counting"
    /\ LET lr == page_iterator.last_response
           num_pages == ParseNumPages(lr.last)
           r == Get(lr, reply, quota, clock, tz, "commits", CORE_RESOURCE)
           count_last_page == ItemsOnPage(page_iterator.commits, PageAsked(lr.last))
       IN  IF num_pages.exc /= "none"
           THEN /\ result' = Ended("count_commits", num_pages)
                /\ page_iterator' = Dropped(page_iterator, 0)
                /\ last_guard' = NoGuardRun
                /\ UNCHANGED <<clock, quota, last_request>>
           ELSE IF ~FetchesLastPage(num_pages.value)
           THEN /\ result' = Ended("count_commits",
                        Returned(CountFormula(PerPage, num_pages.value, lr.items)))
                /\ page_iterator' = Dropped(page_iterator, 0)
                /\ last_guard' = NoGuardRun
                /\ UNCHANGED <<clock, quota, last_request>>
           ELSE /\ r.clock <= Epoch + MaxClock
                /\ clock' = r.clock
                /\ quota' = r.quota
                /\ last_request' = Logged(r.log, last_request)
                /\ last_guard' = GuardRun(r.guard, "commits", "last", last_request)
                /\ page_iterator' = Dropped(page_iterator, Len(r.log))
                /\ result' = Ended("count_commits",
                        IF r.raised \/ ~r.served THEN Raised("GitHubError")
                        ELSE Returned(CountFormula(PerPage, num_pages.value,
                                                   count_last_page)))
    /\ pc' = "idle"
    /\ UNCHANGED <<tz, search_iter>>

\* characters of names besides the ASCII letters and digits: the line feed,
\* and the Kelvin sign, a letter that [a-z] matches under re.I
Newline == "\n"
KelvinSign == "U+212A"

\* [a-z0-9-] and [a-z0-9_\.-] of FULL_NAME_PATTERN, compiled with re.I
OwnerChars == LowerChars \cup UpperChars \cup DigitSet \cup {"-", KelvinSign}
NameChars == OwnerChars \cup {"_", "."}

\* the names handed to get_repo
NameAB == <<"a", "/", "b">>
NameMixed == <<"A", "-", "1", "/", "b", "_", ".", "c">>
NameNewline == <<"a", "/", "b", Newline>>
NameTwoNewlines == <<"a", "/", "b", Newline, Newline>>
NameKelvin == <<KelvinSign, "/", "b">>
NameUnderscore == <<"a", "_", "b", "/", "c">>
NameThreeParts == <<"a", "/", "b", "/", "c">>
NameNoSlash == <<"a", "b">>
NameNoRepo == <<"a", "/">>
NameSpace == <<" ", "a", "/", "b">>
NameEmpty == <<>>

FullNames == {NameAB, NameMixed, NameNewline, NameTwoNewlines, NameKelvin,
              NameUnderscore, NameThreeParts, NameNoSlash, NameNoRepo,
              NameSpace, NameEmpty}

\* RepoVerifier._full_name_to_parts: FULL_NAME_PATTERN.match(full_name) with
\* FULL_NAME_PATTERN = ^([a-z0-9-]+)\/([a-z0-9_\.-]+)$ ; the groups are
\* greedy, and $ matches at the end and before a newline that ends the string
FullNameToParts(full_name) ==
    LET slash == RunOf(OwnerChars, full_name, 1)
        end == RunOf(NameChars, full_name, slash + 1)
    IN  IF /\ slash > 1 /\ slash <= Len(full_name) /\ full_name[slash] = "/"
           /\ end > slash + 1
           /\ \/ end = Len(full_name) + 1
              \/ end = Len(full_name) /\ full_name[end] = Newline
        THEN [exc |-> "none", owner |-> SubSeq(full_name, 1, slash - 1),
              name |-> SubSeq(full_name, slash + 1, end - 1)]
        ELSE [exc |-> "ValueError", owner |-> <<>>, name |-> <<>>]

\* how a call on a repository name ended, with the requests and the quota
\* queries it sent to the host
Call(ended, full_name, requests, queries) ==
    [op |-> ended.op, exc |-> ended.exc, value |-> ended.value,
     full_name |-> full_name, requests |-> requests, queries |-> queries]

\* the quota queries of a run of the guard
Queries(g) == IF g.quota_from \in QuotaReplies THEN 1 ELSE 0

\* RepoVerifier.get_repo: the name is split, then GitHub.repository sends the
\* lookup through the _get of the RateLimitedGitHub object, which has no
\* last_response; a repository the host does not know gives None
GetRepo(full_name, exists, reply) ==
    /\ pc = "idle"
    /\ LET parts == FullNameToParts(full_name)
           r == Get(NoResponse, reply, quota, clock, tz, "repo", CORE_RESOURCE)
       IN  IF parts.exc /= "none"
           THEN /\ result' = Call(Ended("get_repo", Raised(parts.exc)),
                                  full_name, 0, 0)
                /\ last_guard' = NoGuardRun
                /\ UNCHANGED <<clock, quota, last_request>>
           ELSE /\ r.clock <= Epoch + MaxClock
                /\ clock' = r.clock
                /\ quota' = r.quota
                /\ last_request' =
                       IF Len(r.log) = 0 THEN last_request
                       ELSE [r.log[1] EXCEPT !.target = <<parts.owner, parts.name>>]
                /\ last_guard' = GuardRun(r.guard, "repo", "none", last_request)
                /\ result' = Call(Ended("get_repo",
                                    IF r.raised \/ ~r.served THEN Raised("GitHubError")
                                    ELSE IF exists THEN Returned(1) ELSE Returned(0)),
                                  full_name, Len(r.log), Queries(r.guard))
    /\ UNCHANGED <<tz, pc, page_iterator, search_iter>>

(***************************************************************************)
(* find_gradle_files.py: GradleFileSearcher.                               *)
(***************************************************************************)
\* paths of search results, in pieces
ResultPaths == {<<"build", ".gradle">>, <<"settings", ".gradle", "/example.txt">>}

\* result.path.endswith('.gradle')
EndsWithGradle(path) == Len(path) > 0 /\ path[Len(path)] = ".gradle"

SeqsUpTo(S, n) == UNION {[1..k -> S] : k \in 0..n}

\* search_gradle_files: one page of GitHub.search_code, whose SearchIterator
\* is github3's own and sends its request without the guard
SearchPage(paths, more) ==
    /\ \/ pc = "idle"
       \/ pc = "gradle" /\ search_iter.pending = <<>> /\ search_iter.more
    /\ LET r == PlainGet(quota, clock, "search", SEARCH_RESOURCE)
       IN  /\ quota' = r.quota
           /\ last_request' = Logged(r.log, last_request)
           /\ IF r.served
              THEN /\ pc' = "gradle"
                   /\ search_iter' = [pending |-> paths, more |-> more]
                   /\ result' = Idle
              ELSE /\ pc' = "idle"
                   /\ search_iter' = NoSearch
                   /\ result' = Ended("iter_gradle_files", Raised("GitHubError"))
    /\ last_guard' = NoGuardRun
    /\ UNCHANGED <<clock, tz, page_iterator>>

\* iter_gradle_files, lines 48-52: the next search result; the contents of a
\* gradle file are fetched by result.repository, a Repository of github3
NextResult ==
    /\ pc = "gradle"
    /\ search_iter.pending /= <<>>
    /\ IF EndsWithGradle(Head(search_iter.pending))
       THEN LET r == PlainGet(quota, clock, "contents", CORE_RESOURCE)
            IN  /\ quota' = r.quota
                /\ last_request' = Logged(r.log, last_request)
                /\ IF r.served
                   THEN /\ pc' = "gradle"
                        /\ search_iter' = [search_iter EXCEPT !.pending = Tail(@)]
                        /\ result' = Idle
                   ELSE /\ pc' = "idle"
                        /\ search_iter' = NoSearch
                        /\ result' = Ended("iter_gradle_files",
                                           Raised("GitHubError"))
       ELSE /\ search_iter' = [search_iter EXCEPT !.pending = Tail(@)]
            /\ UNCHANGED <<quota, last_request, pc, result>>
    /\ last_guard' = NoGuardRun
    /\ UNCHANGED <<clock, tz, page_iterator>>

\* iter_gradle_files: the search has no more results
GradleDone ==
    /\ pc = "gradle"
    /\ search_iter.pending = <<>>
    /\ ~search_iter.more
    /\ pc' = "idle"
    /\ search_iter' = NoSearch
    /\ result' = Ended("iter_gradle_files", Returned(0))
    /\ last_guard' = NoGuardRun
    /\ UNCHANGED <<clock, tz, quota, last_request, page_iterator>>

\* time passes; the host refills the quota of a window that ended
Tick ==
    /\ clock < Epoch + MaxClock
    /\ clock' = clock + 1
    /\ quota' = RefillAll(quota, clock + 1)
    /\ last_guard' = NoGuardRun
    /\ UNCHANGED <<tz, last_request, pc, page_iterator, search_iter, result>>

(***************************************************************************)
(* github_package_match.py: RecursiveSearch.                               *)
(* A parsed JSON value is a record with a tag t; a string is a sequence of *)
(* characters, an object a sequence of [k, v] pairs.                       *)
(***************************************************************************)
JNull == [t |-> "null"]
JBool(b) == [t |-> "bool", b |-> b]
JNum(n) == [t |-> "num", n |-> n]
JStr(s) == [t |-> "str", s |-> s]
JList(l) == [t |-> "list", l |-> l]
JDict(d) == [t |-> "dict", d |-> d]

\* the characters [A-Za-z0-9_-]
WordChars == LowerChars \cup UpperChars \cup DigitSet \cup {"_", "-"}

\* the literal start of the pattern: github\.com\/
PatternPrefix == <<"g", "i", "t", "h", "u", "b", ".", "c", "o", "m", "/">>

\* the index after the longest run of [A-Za-z0-9_-] that starts at s[i]
RECURSIVE WordRun(_, _)
WordRun(s, i) == IF i <= Len(s) /\ s[i] \in WordChars THEN WordRun(s, i + 1) ELSE i

PrefixAt(s, i) ==
    /\ i + Len(PatternPrefix) - 1 <= Len(s)
    /\ SubSeq(s, i, i + Len(PatternPrefix) - 1) = PatternPrefix

\* re.findall(pattern, s) from index i on, with
\* pattern = github\.com\/([A-Za-z0-9_-]*\/[A-Za-z0-9_-]*): the groups of the
\* matches that do not overlap, from left to right
RECURSIVE FindAllFrom(_, _)
FindAllFrom(s, i) ==
    IF i > Len(s) THEN <<>>
    ELSE IF ~PrefixAt(s, i) THEN FindAllFrom(s, i + 1)
    ELSE LET owner == i + Len(PatternPrefix)
             slash == WordRun(s, owner)
         IN  IF slash <= Len(s) /\ s[slash] = "/"
             THEN LET end == WordRun(s, slash + 1)
                  IN  <<SubSeq(s, owner, end - 1)>> \o FindAllFrom(s, end)
             ELSE FindAllFrom(s, i + 1)

FindAll(s) == FindAllFrom(s, 1)

\* re.search in place of re.findall: the first match only
SearchStr_First(s, path) ==
    LET found == FindAll(s)
    IN  [i \in 1..(IF Len(found) > 0 THEN 1 ELSE 0) |->
            [path |-> path, match |-> found[i]]]

\* RecursiveSearch._search_str: one result for each match
SearchStr(s, path) ==
    LET found == FindAll(s)
    IN  [i \in 1..Len(found) |-> [path |-> path, match |-> found[i]]]

\* RecursiveSearch.search: the results that the search of haystack appends
\* to self.results
RECURSIVE Search(_, _)
RECURSIVE SearchDict(_, _, _)
RECURSIVE SearchList(_, _, _)
Search(haystack, path) ==
    IF haystack.t = "dict" THEN SearchDict(haystack.d, path, 1)
    ELSE IF haystack.t = "list" THEN SearchList(haystack.l, path, 1)
    ELSE IF haystack.t = "str" THEN SearchStr(haystack.s, path)
    ELSE <<>>

\* a loop over d.items() that hands the key to _search_str as well
SearchDict_Keys(d, path, i) ==
    IF i > Len(d) THEN <<>>
    ELSE SearchStr(d[i].k, path) \o Search(d[i].v, Append(path, d[i].k))
         \o SearchDict(d, path, i + 1)

\* RecursiveSearch._search_dict, from the i-th [k, v] pair on
SearchDict(d, path, i) ==
    IF i > Len(d) THEN <<>>
    ELSE Search(d[i].v, Append(path, d[i].k)) \o SearchDict(d, path, i + 1)

\* RecursiveSearch._search_list, from the i-th item on
SearchList(l, path, i) ==
    IF i > Len(l) THEN <<>>
    ELSE Search(l[i], Append(path, i - 1)) \o SearchList(l, path, i + 1)

\* {r['match'] for r in search.results} of a fresh RecursiveSearch
RepoLinks(package_details) ==
    LET results == Search(package_details, <<>>)
    IN  {results[i].match : i \in 1..Len(results)}

\* the truth value of a parsed JSON value (if package_details:)
Truthy(v) ==
    CASE v.t = "null" -> FALSE
      [] v.t = "bool" -> v.b
      [] v.t = "num" -> v.n /= 0
      [] v.t = "str" -> Len(v.s) > 0
      [] v.t = "list" -> Len(v.l) > 0
      [] v.t = "dict" -> Len(v.d) > 0

(***************************************************************************)
(* github_package_match.py: a RecursiveSearch and the values it is run on. *)
(***************************************************************************)
\* texts of string nodes
TextUrl == <<"h", "t", "t", "p", "s", ":", "/", "/", "g", "i", "t", "h", "u", "b", ".", "c", "o", "m", "/", "f", "o", "o", "/", "b", "a", "r">>
TextPlain == <<"p", "l", "a", "i", "n", " ", "t", "e", "x", "t">>
TextReadme == <<"s", "e", "e", " ", "g", "i", "t", "h", "u", "b", ".", "c", "o", "m", "/", "b", "a", "z", "/", "q", "u", "x", "/", "b", "l", "o", "b", "/", "m", "a", "s", "t", "e", "r", "/", "R", "E", "A", "D", "M", "E">>
TextUpper == <<"g", "i", "t", "h", "u", "b", ".", "c", "o", "m", "/", "F", "o", "o", "/", "b", "a", "r">>
TextTwice == <<"g", "i", "t", "h", "u", "b", ".", "c", "o", "m", "/", "f", "o", "o", "/", "b", "a", "r", " ", "g", "i", "t", "h", "u", "b", ".", "c", "o", "m", "/", "f", "o", "o", "/", "b", "a", "r">>
TextNoName == <<"g", "i", "t", "h", "u", "b", ".", "c", "o", "m", "/", "f", "o", "o">>
TextTwo == <<"g", "i", "t", "h", "u", "b", ".", "c", "o", "m", "/", "a", "/", "b", ",", " ", "g", "i", "t", "h", "u", "b", ".", "c", "o", "m", "/", "a", "/", "c">>
TextHost == <<"G", "i", "t", "H", "u", "b", ".", "c", "o", "m", "/", "f", "o", "o", "/", "b", "a", "r">>

Texts == {TextUrl, TextPlain, TextReadme, TextUpper, TextTwice, TextNoName, TextTwo, TextHost}

\* the nodes without children: null, booleans, numbers, strings
Leaves == {JNull, JBool(TRUE), JNum(1)} \cup {JStr(t) : t \in Texts}

\* the nodes the containers of the model are made of
Items == {JNull, JNum(1), JStr(TextUrl), JStr(TextPlain), JStr(TextTwo)}

\* the value {"a": [TextUrl, TextPlain], "b": {"c": TextReadme}}
NestedExample ==
    JDict(<<[k |-> <<"a">>, v |-> JList(<<JStr(TextUrl), JStr(TextPlain)>>)],
            [k |-> <<"b">>, v |-> JDict(<<[k |-> <<"c">>, v |-> JStr(TextReadme)]>>)]>>)

\* parsed JSON values up to MaxDepth levels of containers: lists of at most
\* two nodes, objects of one or two members (one key is itself a link text)
RECURSIVE ValuesOfDepth(_)
ValuesOfDepth(n) ==
    IF n = 0 THEN Leaves
    ELSE LET inner == IF n = 1 THEN Items ELSE ValuesOfDepth(n - 1) \ Leaves
             below == IF n = 1 THEN Leaves ELSE inner
         IN  {JList(<<>>)}
             \cup {JList(<<x>>) : x \in below}
             \cup {JList(<<x, y>>) : x \in inner, y \in Items}
             \cup {JDict(<<[k |-> TextUrl, v |-> x]>>) : x \in inner}
             \cup {JDict(<<[k |-> <<"a">>, v |-> x], [k |-> <<"b">>, v |-> y]>>) :
                      x \in inner, y \in Items}

Haystacks == UNION {ValuesOfDepth(n) : n \in 0..MaxDepth} \cup {NestedExample}

VARIABLES
    haystack,     \* the value handed to search
    given,        \* the value as it was when the RecursiveSearch was made
    results,      \* search.results of the RecursiveSearch at hand
    links_first,  \* {r['match'] for r in search.results} after the first run
    links_again,  \* the same set after the second run
    search_pc     \* "new", then "once", then "same" or "fresh"

\* RecursiveSearch.__init__: self.results = []
NewResults == <<>>

\* {r['match'] for r in results}
Matches(rs) == {rs[i].match : i \in 1..Len(rs)}

\* a search that takes the items out of the containers it walks through
RunSearch_Consuming(rs, value) ==
    [results |-> rs \o Search(value, <<>>),
     haystack |-> IF value.t = "list" THEN JList(<<>>)
                  ELSE IF value.t = "dict" THEN JDict(<<>>) ELSE value]

\* search.search(value) on a RecursiveSearch whose results are rs: the
\* matches are appended to rs; the loops read value and assign nothing in it
RunSearch(rs, value) ==
    [results |-> rs \o Search(value, <<>>), haystack |-> value]

\* search = RecursiveSearch(pattern); search.search(haystack)
SearchOnce ==
    /\ search_pc = "new"
    /\ LET r == RunSearch(NewResults, haystack)
       IN  /\ results' = r.results
           /\ haystack' = r.haystack
           /\ links_first' = Matches(r.results)
    /\ search_pc' = "once"
    /\ UNCHANGED <<given, links_again>>

\* search.search(haystack) once more on the same RecursiveSearch
SearchSame ==
    /\ search_pc = "once"
    /\ LET r == RunSearch(results, haystack)
       IN  /\ results' = r.results
           /\ haystack' = r.haystack
           /\ links_again' = Matches(r.results)
    /\ search_pc' = "same"
    /\ UNCHANGED <<given, links_first>>

\* a second RecursiveSearch(pattern) run on the same value
SearchFresh ==
    /\ search_pc = "once"
    /\ LET r == RunSearch(NewResults, haystack)
       IN  /\ results' = r.results
           /\ haystack' = r.haystack
           /\ links_again' = Matches(r.results)
    /\ search_pc' = "fresh"
    /\ UNCHANGED <<given, links_first>>

(***************************************************************************)
(* github_package_match.py: match_play_and_github.                         *)
(***************************************************************************)
\* repository names
RepoAB == <<"a", "/", "b">>
RepoAC == <<"a", "/", "c">>
RepoXY == <<"x", "/", "y">>

\* metadata of packages, as parse_package_details reads them from the
\* JSON files of the details directory
DetailsSamples == <<
    JNull,
    JDict(<<>>),
    JDict(<<[k |-> <<"t", "i", "t", "l", "e">>, v |-> JStr(<<"p", "l", "a", "i", "n", " ", "t", "e", "x", "t">>)], [k |-> <<"n">>, v |-> JNum(1)]>>),
    JDict(<<[k |-> <<"a">>, v |-> JList(<<JStr(<<"h", "t", "t", "p", "s", ":", "/", "/", "g", "i", "t", "h", "u", "b", ".", "c", "o", "m", "/", "a", "/", "b">>), JStr(<<"p", "l", "a", "i", "n", " ", "t", "e", "x", "t">>)>>)],
            [k |-> <<"b">>, v |-> JDict(<<[k |-> <<"c">>, v |-> JBool(TRUE)]>>)]>>),
    JList(<<JStr(<<"s", "e", "e", " ", "g", "i", "t", "h", "u", "b", ".", "c", "o", "m", "/", "a", "/", "b", "/", "b", "l", "o", "b", "/", "R", "E", "A", "D", "M", "E", ".", "m", "d">>), JDict(<<[k |-> <<"c">>, v |-> JStr(<<"h", "t", "t", "p", "s", ":", "/", "/", "g", "i", "t", "h", "u", "b", ".", "c", "o", "m", "/", "a", "/", "b">>)]>>)>>),
    JDict(<<[k |-> <<"a">>, v |-> JStr(<<"g", "i", "t", "h", "u", "b", ".", "c", "o", "m", "/", "a", "/", "b", ",", " ", "g", "i", "t", "h", "u", "b", ".", "c", "o", "m", "/", "a", "/", "c">>)]>>),
    JDict(<<[k |-> <<"a">>, v |-> JStr(<<"h", "t", "t", "p", "s", ":", "/", "/", "g", "i", "t", "h", "u", "b", ".", "c", "o", "m", "/", "a", "/", "b">>)], [k |-> <<"b">>, v |-> JList(<<JStr(<<"g", "i", "t", "h", "u", "b", ".", "c", "o", "m", "/", "x", "/", "y">>)>>)]>>),
    JStr(<<"g", "i", "t", "h", "u", "b", ".", "c", "o", "m", "/", "x", "/", "y">>),
    JDict(<<[k |-> <<"h", "t", "t", "p", "s", ":", "/", "/", "g", "i", "t", "h", "u", "b", ".", "c", "o", "m", "/", "a", "/", "b">>, v |-> JNull]>>)
  >>

\* the lists of repositories row['all_repos'].split(',') gives for a package
KnownLists == {<<RepoAB>>, <<RepoAB, RepoAB>>, <<RepoAB, RepoAC>>}

\* the packages that may have a row in the package-to-repo file, and the
\* file names (without .json) of the details directory
KnownPackages == {"p1", "p2"}
PackageNames == {"p1", "p2", "p3"}

VARIABLES
    packages,        \* package name -> list of repositories (the CSV file)
    todo,            \* the files of the details directory not yet read
    stats,           \* the counters of match_play_and_github
    play_to_github,  \* the (package, repository) pairs emitted, in order
    github_to_play,  \* repository -> the packages linked to it
    seen,            \* for each package read: its metadata's links and its branch
    match_pc         \* "loop" while the files are read, then "done"

\* stats as initialised in lines 184-200
InitialStats ==
    [all |-> 0, unknown_package |-> 0,
     details |-> [empty |-> 0, non_empty |-> 0],
     repo_links |-> [lt1 |-> 0, eq1 |-> 0, gt1 |-> 0],
     repo_has_manifest |-> [yes |-> 0, no |-> 0]]

\* stats['all'] += 1 left out
CountAll_Missing(st) == st

\* stats['all'] += 1
CountAll(st) == [st EXCEPT !.all = @ + 1]

\* package_name in packages
InPackages(package_name, pkgs) == package_name \in DOMAIN pkgs

\* len(repo_links) >= 1 in place of == 1
OneLink_AtLeast(repo_links) == Cardinality(repo_links) >= 1

\* len(repo_links) == 1
OneLink(repo_links) == Cardinality(repo_links) = 1

\* repo_links.pop()
Pop(repo_links) == CHOOSE r \in repo_links : TRUE

\* len(repo_links) < 0 in place of < 1
LessThanOne_OffByOne(repo_links) == Cardinality(repo_links) < 0

\* len(repo_links) < 1
LessThanOne(repo_links) == Cardinality(repo_links) < 1

\* the test of the manifest left out
HasManifest_Always(repo, known) == TRUE

\* the test of the list in place of the test of membership:
\* if packages[package_name]
HasManifest_AnyKnown(repo, known) == Len(known) > 0

\* repo in packages[package_name]
HasManifest(repo, known) == \E i \in 1..Len(known) : known[i] = repo

\* github_to_play.setdefault(repo, []).append(package_name)
SetDefaultAppend(g, repo, package_name) ==
    IF repo \in DOMAIN g THEN [g EXCEPT ![repo] = Append(@, package_name)]
    ELSE g @@ (repo :> <<package_name>>)

\* the body of the loop of match_play_and_github, lines 204-247, on
\* m = [stats, play_to_github, github_to_play]; leaf names the branch taken
MatchOne(m, pkgs, package_name, package_details) ==
    LET m1 == [m EXCEPT !.stats = CountAll(@)]
    IN  IF ~InPackages(package_name, pkgs)
        THEN [m1 EXCEPT !.stats.unknown_package = @ + 1, !.leaf = "unknown_package"]
        ELSE IF Truthy(package_details)
        THEN LET m2 == [m1 EXCEPT !.stats.details.non_empty = @ + 1]
                 repo_links == RepoLinks(package_details)
             IN  IF OneLink(repo_links)
                 THEN LET m3 == [m2 EXCEPT !.stats.repo_links.eq1 = @ + 1]
                          repo == Pop(repo_links)
                      IN  IF HasManifest(repo, pkgs[package_name])
                          THEN [m3 EXCEPT
                                  !.stats.repo_has_manifest.yes = @ + 1,
                                  !.play_to_github =
                                      Append(@, [package_name |-> package_name,
                                                 repository |-> repo]),
                                  !.github_to_play =
                                      SetDefaultAppend(@, repo, package_name),
                                  !.leaf = "yes"]
                          ELSE [m3 EXCEPT !.stats.repo_has_manifest.no = @ + 1,
                                          !.leaf = "no"]
                 ELSE IF LessThanOne(repo_links)
                 THEN [m2 EXCEPT !.stats.repo_links.lt1 = @ + 1, !.leaf = "lt1"]
                 ELSE IF Cardinality(repo_links) > 1
                 THEN [m2 EXCEPT !.stats.repo_links.gt1 = @ + 1, !.leaf = "gt1"]
                 ELSE [m2 EXCEPT !.leaf = "none"]
        ELSE [m1 EXCEPT !.stats.details.empty = @ + 1, !.leaf = "empty"]

(***************************************************************************)
(* The tie-break cascade the specification describes (deduplicate). The    *)
(* sources hold no such function: it is written from the specification.    *)
(***************************************************************************)
\* the host's metadata of the repositories of the model
RepoMetadata ==
    (RepoAB :> [full_name |-> RepoAB, fork |-> FALSE, forks_count |-> 2,
                watchers_count |-> 1, subscribers_count |-> 1])
    @@ (RepoAC :> [full_name |-> RepoAC, fork |-> FALSE, forks_count |-> 1,
                   watchers_count |-> 1, subscribers_count |-> 1])
    @@ (RepoXY :> [full_name |-> RepoXY, fork |-> TRUE, forks_count |-> 0,
                   watchers_count |-> 0, subscribers_count |-> 0])

\* the repositories of S whose metric is the largest, when S has several
KeepMost(S, metric) ==
    IF Cardinality(S) <= 1 THEN S
    ELSE {r \in S : \A q \in S : RepoMetadata[q][metric] <= RepoMetadata[r][metric]}

\* the set holding the winner of the cascade over candidates, or the empty set
Deduplicate(candidates) ==
    LET names == {candidates[i] : i \in 1..Len(candidates)}
        resolved == {RepoMetadata[c].full_name : c \in names \cap DOMAIN RepoMetadata}
        originals == {r \in resolved : ~RepoMetadata[r].fork}
        left == KeepMost(KeepMost(KeepMost(originals, "forks_count"),
                                  "watchers_count"), "subscribers_count")
    IN  IF Cardinality(names) = 1 THEN names
        ELSE IF Cardinality(left) = 1 THEN left ELSE {}

NotSeen == [done |-> FALSE, truthy |-> FALSE, links |-> {}, leaf |-> "none"]

\* one turn of the loop: the next file of the directory holds the metadata
\* DetailsSamples[i] of package_name
ProcessPackage(package_name, i) ==
    /\ match_pc = "loop"
    /\ package_name \in todo
    /\ LET package_details == DetailsSamples[i]
           m == MatchOne([stats |-> stats, play_to_github |-> play_to_github,
                          github_to_play |-> github_to_play, leaf |-> "none"],
                         packages, package_name, package_details)
       IN  /\ stats' = m.stats
           /\ play_to_github' = m.play_to_github
           /\ github_to_play' = m.github_to_play
           /\ seen' = [seen EXCEPT ![package_name] =
                         [done |-> TRUE, truthy |-> Truthy(package_details),
                          links |-> RepoLinks(package_details), leaf |-> m.leaf]]
    /\ todo' = todo \ {package_name}
    /\ UNCHANGED <<packages, match_pc>>

\* lines 251-256, once the directory has no more files:
\* stats['duplicate_links'] = sum(1 for pn in github_to_play.values() if len(pn) > 1)
FinishMatch ==
    /\ match_pc = "loop"
    /\ match_pc' = "done"
    /\ stats' = stats @@ ("duplicate_links" :>
                   Cardinality({r \in DOMAIN github_to_play :
                                    Len(github_to_play[r]) > 1}))
    /\ UNCHANGED <<packages, todo, play_to_github, github_to_play, seen>>

(***************************************************************************)
(* github_repo_data.py: main and download_repo_data.                       *)
(***************************************************************************)
VARIABLES
    rows,       \* the rows of the package list
    row_ix,     \* the row the loop of main is at
    written,    \* the repositories whose data csv_writer has written
    outcome,    \* for each row: the status of the lookup's reply, how get_repo
                \* ended, and the commit requests sent
    data_pc     \* where main is

\* rows of the package list: a package without a repository name, and a
\* package with one
RowShort == <<"p">>
RowAB == <<"p", NameAB>>
RowNoSlash == <<"p", NameNoSlash>>
RowKinds == {RowShort, RowAB, RowNoSlash}

PackageLists == UNION {[1..k -> RowKinds] : k \in 1..MaxRows}

\* a row main has not come to
NoOutcome == [host |-> 0, exc |-> "none", repo |-> 0, commit_requests |-> 0]

\* a step of a program that sends nothing
NoHostStep ==
    /\ last_guard' = NoGuardRun
    /\ UNCHANGED <<clock, tz, quota, last_request, pc, page_iterator,
                   search_iter, result>>

\* the status the host answered the lookup of the latest get_repo with
LookupStatus(res, req, exists) ==
    IF res.requests = 0 THEN 0
    ELSE IF req.status = 403 THEN 403
    ELSE IF exists THEN 200 ELSE 404

\* download_repo_data without the test of line 38
RepoFound_Always(value) == TRUE

\* download_repo_data, line 38: if repo
RepoFound(value) == value /= 0

\* main, lines 87-91, up to the call of count_commits: the next row;
\* download_repo_data looks the repository up, and an exception of get_repo
\* leaves main, which has no handler
DataRow(exists, reply) ==
    /\ data_pc = "row"
    /\ row_ix <= Len(rows)
    /\ IF Len(rows[row_ix]) > 1
       THEN /\ GetRepo(rows[row_ix][2], exists, reply)
            /\ outcome' = [outcome EXCEPT ![row_ix] =
                   [host |-> LookupStatus(result', last_request', exists),
                    exc |-> result'.exc, repo |-> result'.value,
                    commit_requests |-> 0]]
            /\ IF result'.exc /= "none"
               THEN data_pc' = "aborted" /\ row_ix' = row_ix
               ELSE IF RepoFound(result'.value)
               THEN data_pc' = "counting" /\ row_ix' = row_ix
               ELSE data_pc' = "row" /\ row_ix' = row_ix + 1
       ELSE /\ NoHostStep
            /\ row_ix' = row_ix + 1
            /\ UNCHANGED <<outcome, data_pc>>
    /\ UNCHANGED <<rows, written>>

\* download_repo_data, line 40: repo.count_commits() up to its first page
DataCountFirst(n, reply, hdrs) ==
    /\ data_pc = "counting"
    /\ CountCommitsFirst(n, "host", reply, hdrs)
    /\ outcome' = [outcome EXCEPT ![row_ix].commit_requests = page_iterator'.fetched]
    /\ data_pc' = IF pc' = "counting" THEN "counting" ELSE "aborted"
    /\ UNCHANGED <<rows, row_ix, written>>

\* download_repo_data, lines 40-41, and main, lines 92-93: the count, and
\* the row written
DataCountLast(reply) ==
    /\ data_pc = "counting"
    /\ CountCommitsLast(reply)
    /\ outcome' = [outcome EXCEPT ![row_ix].commit_requests = page_iterator'.fetched]
    /\ IF result'.exc /= "none"
       THEN /\ data_pc' = "aborted"
            /\ UNCHANGED <<row_ix, written>>
       ELSE /\ data_pc' = "row"
            /\ row_ix' = row_ix + 1
            /\ written' = Append(written, row_ix)
    /\ UNCHANGED rows

\* main: the package list is exhausted
DataEnd ==
    /\ data_pc = "row"
    /\ row_ix > Len(rows)
    /\ data_pc' = "done"
    /\ NoHostStep
    /\ UNCHANGED <<rows, row_ix, written, outcome>>

(***************************************************************************)
(* find_gradle_files.py: main.                                             *)
(***************************************************************************)
VARIABLES
    repo_list,  \* the full_name column of the repository list
    repo_ix,    \* the row the loop of main is at
    repo_name,  \* the name the while loop works on
    gradle_pc,  \* where main is
    tries,      \* the downloads started for the row
    failure,    \* the code of the GitHubError of the latest download, 0 if none
    retried,    \* a download was started again after a failure other than 422
    symlinks    \* the names symlink_repo has made links of

\* the name the host knows a moved repository by
NameMoved == <<"c", "/", "d">>

RepoLists == UNION {[1..k -> {NameAB, NameNoSlash, NameEmpty}] : k \in 1..MaxRows}

\* error.code == 422
ValidationFailed == 422

\* repo.full_name is not repo_name: two str objects, one parsed from the
\* host's JSON and one read from the list or from an earlier reply, are
\* never the same object
IsNot(full_name, name) == TRUE

\* main, lines 150-152: the next row
GradleRow ==
    /\ gradle_pc = "row"
    /\ repo_ix <= Len(repo_list)
    /\ repo_name' = repo_list[repo_ix]
    /\ tries' = 0
    /\ failure' = 0
    /\ IF repo_list[repo_ix] = NameEmpty
       THEN repo_ix' = repo_ix + 1 /\ gradle_pc' = "row"
       ELSE repo_ix' = repo_ix /\ gradle_pc' = "download"
    /\ NoHostStep
    /\ UNCHANGED <<repo_list, retried, symlinks>>

\* the except clause of main, lines 157-158: what is left of a GitHubError
\* with this code is the code; 422 goes on to the lookup, any other code
\* falls out of the if and the while loop comes round again
Caught(code) ==
    /\ failure' = code
    /\ gradle_pc' = IF code = ValidationFailed THEN "moved" ELSE "download"

\* GitHub.search_code for a name the host does not accept: the request is
\* sent without the guard and answered 422, or 403 without quota
SearchInvalid ==
    /\ pc = "idle"
    /\ LET r == PlainGet(quota, clock, "search", SEARCH_RESOURCE)
       IN  /\ quota' = r.quota
           /\ last_request' = Logged(r.log, last_request)
    /\ pc' = "idle"
    /\ search_iter' = NoSearch
    /\ result' = Ended("iter_gradle_files", Raised("GitHubError"))
    /\ last_guard' = NoGuardRun
    /\ UNCHANGED <<clock, tz, page_iterator>>

\* main, lines 153-155: download_gradle_files starts, with the search
GradleSearch(paths, more, valid) ==
    /\ gradle_pc = "download"
    /\ pc = "idle"
    /\ tries < MaxTries
    /\ tries' = tries + 1
    /\ retried' = (retried \/ (failure /= 0 /\ failure /= ValidationFailed))
    /\ valid => FullNameToParts(repo_name).exc = "none"
    /\ IF valid
       THEN /\ SearchPage(paths, more)
            /\ IF pc' = "gradle"
               THEN failure' = 0 /\ gradle_pc' = "download"
               ELSE Caught(403)
       ELSE /\ SearchInvalid
            /\ Caught(IF last_request'.status = 403 THEN 403 ELSE ValidationFailed)
    /\ UNCHANGED <<repo_list, repo_ix, repo_name, symlinks>>

\* download_gradle_files: the next page of the search
GradleMore(paths, more) ==
    /\ gradle_pc = "download"
    /\ pc = "gradle"
    /\ SearchPage(paths, more)
    /\ IF pc' = "gradle"
       THEN UNCHANGED <<failure, gradle_pc>>
       ELSE Caught(403)
    /\ UNCHANGED <<repo_list, repo_ix, repo_name, tries, retried, symlinks>>

\* download_gradle_files, lines 80-85: the next file
GradleFile ==
    /\ gradle_pc = "download"
    /\ NextResult
    /\ IF pc' = "gradle"
       THEN UNCHANGED <<failure, gradle_pc>>
       ELSE Caught(403)
    /\ UNCHANGED <<repo_list, repo_ix, repo_name, tries, retried, symlinks>>

\* main, line 156: the download is complete, break
GradleBreak ==
    /\ gradle_pc = "download"
    /\ GradleDone
    /\ gradle_pc' = "row"
    /\ repo_ix' = repo_ix + 1
    /\ UNCHANGED <<repo_list, repo_name, tries, failure, retried, symlinks>>

\* main, lines 158-173: after a 422 the repository is looked up; it is gone,
\* or the host names it full_name; an exception raised here leaves main, as
\* does the FileExistsError of a second os.symlink of the same name
GradleLookup(exists, reply, full_name) ==
    /\ gradle_pc = "moved"
    /\ GetRepo(repo_name, exists, reply)
    /\ IF result'.exc /= "none"
       THEN /\ gradle_pc' = "aborted"
            /\ UNCHANGED <<repo_ix, repo_name, symlinks>>
       ELSE IF result'.value = 0
       THEN /\ gradle_pc' = "row"
            /\ repo_ix' = repo_ix + 1
            /\ UNCHANGED <<repo_name, symlinks>>
       ELSE IF IsNot(full_name, repo_name)
       THEN IF repo_name \in symlinks
            THEN /\ gradle_pc' = "aborted"
                 /\ UNCHANGED <<repo_ix, repo_name, symlinks>>
            ELSE /\ symlinks' = symlinks \cup {repo_name}
                 /\ repo_name' = full_name
                 /\ gradle_pc' = "download"
                 /\ UNCHANGED repo_ix
       ELSE /\ gradle_pc' = "aborted"
            /\ UNCHANGED <<repo_ix, repo_name, symlinks>>
    /\ UNCHANGED <<repo_list, tries, failure, retried>>

\* main: the repository list is exhausted
GradleEnd ==
    /\ gradle_pc = "row"
    /\ repo_ix > Len(repo_list)
    /\ gradle_pc' = "done"
    /\ NoHostStep
    /\ UNCHANGED <<repo_list, repo_ix, repo_name, tries, failure, retried, symlinks>>

(***************************************************************************)
(* Specifications.                                                         *)
(***************************************************************************)
githubVars == <<clock, tz, quota, last_request, pc, page_iterator, search_iter,
                last_guard, result>>

matchVars == <<packages, todo, stats, play_to_github, github_to_play, seen,
               match_pc>>

searchVars == <<haystack, given, results, links_first, links_again, search_pc>>

dataVars == <<rows, row_ix, written, outcome, data_pc>>

gradleVars == <<repo_list, repo_ix, repo_name, gradle_pc, tries, failure,
                retried, symlinks>>

vars == <<githubVars, matchVars, searchVars, dataVars, gradleVars>>

\* the local clock's offsets from UTC
TzOffsets == {-TzShift, 0}

\* a client that has sent nothing; the host's quota windows end Window
\* seconds after the start
GitHubStart ==
    /\ clock = Epoch
    /\ tz \in TzOffsets
    /\ \E c \in 0..Limit, sr \in 0..Limit :
         quota = [r \in Resources |->
                    [limit |-> Limit,
                     remaining |-> IF r = CORE_RESOURCE THEN c
                                   ELSE IF r = SEARCH_RESOURCE THEN sr
                                   ELSE Limit,
                     reset |-> Epoch + Window]]
    /\ last_request = NoRequest
    /\ last_guard = NoGuardRun
    /\ pc = "idle"
    /\ page_iterator = NoIterator
    /\ search_iter = NoSearch
    /\ result = Idle

\* match_play_and_github before its loop, lines 176-202
MatchStart ==
    /\ packages \in [KnownPackages -> KnownLists]
    /\ todo = PackageNames
    /\ stats = InitialStats
    /\ play_to_github = <<>>
    /\ github_to_play = << >>
    /\ seen = [p \in PackageNames |-> NotSeen]
    /\ match_pc = "loop"

\* a RecursiveSearch not yet run, and the value it is made for
SearchStart(value) ==
    /\ haystack = value
    /\ given = value
    /\ results = NewResults
    /\ links_first = {}
    /\ links_again = {}
    /\ search_pc = "new"

\* main of github_repo_data.py before its loop, on a package list
DataStart(package_list) ==
    /\ rows = package_list
    /\ row_ix = 1
    /\ written = <<>>
    /\ outcome = [i \in 1..Len(package_list) |-> NoOutcome]
    /\ data_pc = "row"

\* main of find_gradle_files.py before its loop, on a repository list
GradleStart(names) ==
    /\ repo_list = names
    /\ repo_ix = 1
    /\ repo_name = NameEmpty
    /\ gradle_pc = "row"
    /\ tries = 0
    /\ failure = 0
    /\ retried = FALSE
    /\ symlinks = {}

\* the two programs not run
MainsIdle == DataStart(<<RowAB>>) /\ GradleStart(<<NameAB>>)

\* the rel="last" links the first response of a listing of n commits may carry
Shapes(n) == IF n > PerPage THEN LinkShapes ELSE {"host"}

\* the programs that talk to the host: github_repo_data.py, find_gradle_files.py
InitGitHub ==
    /\ GitHubStart
    /\ MatchStart /\ packages = [p \in KnownPackages |-> <<RepoAB>>]
    /\ SearchStart(JNull)
    /\ MainsIdle

NextGitHub ==
    /\ \/ Tick
       \/ \E exists \in BOOLEAN, reply \in QuotaReplies :
              GetRepo(NameAB, exists, reply)
       \/ \E n \in {1, PerPage + 1}, reply \in QuotaReplies, hdrs \in BOOLEAN :
              CountCommitsFirst(n, "host", reply, hdrs)
       \/ \E reply \in QuotaReplies : CountCommitsLast(reply)
       \/ \E paths \in SeqsUpTo(ResultPaths, MaxResults), more \in BOOLEAN :
              SearchPage(paths, more)
       \/ NextResult
       \/ GradleDone
    /\ UNCHANGED <<matchVars, searchVars, dataVars, gradleVars>>

SpecGitHub == InitGitHub /\ [][NextGitHub]_vars

\* RepoVerifier.get_repo over the names of the model
NextRepo ==
    /\ \/ Tick
       \/ \E full_name \in FullNames, exists \in BOOLEAN, reply \in QuotaReplies :
              GetRepo(full_name, exists, reply)
    /\ UNCHANGED <<matchVars, searchVars, dataVars, gradleVars>>

SpecRepo == InitGitHub /\ [][NextRepo]_vars

\* Repo.count_commits over the repositories and links of the model; one run
\* of the program counts the commits of one repository, time and again
InitCount == InitGitHub /\ tz = 0 /\ quota[SEARCH_RESOURCE].remaining = Limit

NextCount ==
    /\ \/ Tick
       \/ \E n \in CommitCounts, reply \in QuotaReplies, hdrs \in BOOLEAN :
              \E shape \in Shapes(n) :
                  /\ \/ page_iterator = NoIterator
                     \/ /\ n = page_iterator.commits
                        /\ shape = page_iterator.shape
                        /\ hdrs = page_iterator.hdrs
                  /\ CountCommitsFirst(n, shape, reply, hdrs)
       \/ \E reply \in QuotaReplies : CountCommitsLast(reply)
    /\ UNCHANGED <<matchVars, searchVars, dataVars, gradleVars>>

SpecCount == InitCount /\ [][NextCount]_vars

\* github_package_match.py
QuietHost ==
    /\ GitHubStart
    /\ tz = 0
    /\ quota = [r \in Resources |->
                  [limit |-> Limit, remaining |-> Limit, reset |-> Epoch + Window]]

InitMatch == MatchStart /\ QuietHost /\ SearchStart(JNull) /\ MainsIdle

NextMatch ==
    /\ \/ \E package_name \in PackageNames, i \in 1..Len(DetailsSamples) :
              ProcessPackage(package_name, i)
       \/ FinishMatch
    /\ UNCHANGED <<githubVars, searchVars, dataVars, gradleVars>>

SpecMatch == InitMatch /\ [][NextMatch]_vars

\* RecursiveSearch run once and once more over the values of the model
InitSearch ==
    /\ \E value \in Haystacks : SearchStart(value)
    /\ QuietHost
    /\ MatchStart /\ packages = [p \in KnownPackages |-> <<RepoAB>>]
    /\ MainsIdle

NextSearch ==
    /\ \/ SearchOnce
       \/ SearchSame
       \/ SearchFresh
    /\ UNCHANGED <<githubVars, matchVars, dataVars, gradleVars>>

SpecSearch == InitSearch /\ [][NextSearch]_vars

\* github_repo_data.py run over the package lists of the model
InitData ==
    /\ GitHubStart /\ tz = 0 /\ quota[SEARCH_RESOURCE].remaining = Limit
    /\ MatchStart /\ packages = [p \in KnownPackages |-> <<RepoAB>>]
    /\ SearchStart(JNull)
    /\ \E package_list \in PackageLists : DataStart(package_list)
    /\ GradleStart(<<NameAB>>)

NextData ==
    /\ \/ Tick /\ UNCHANGED dataVars
       \/ \E exists \in BOOLEAN, reply \in QuotaReplies : DataRow(exists, reply)
       \/ \E n \in {1, PerPage + 1}, reply \in QuotaReplies, hdrs \in BOOLEAN :
              DataCountFirst(n, reply, hdrs)
       \/ \E reply \in QuotaReplies : DataCountLast(reply)
       \/ DataEnd
    /\ UNCHANGED <<matchVars, searchVars, gradleVars>>

SpecData == InitData /\ [][NextData]_vars

\* find_gradle_files.py run over the repository lists of the model
InitGradle ==
    /\ GitHubStart /\ tz = 0
    /\ MatchStart /\ packages = [p \in KnownPackages |-> <<RepoAB>>]
    /\ SearchStart(JNull)
    /\ DataStart(<<RowAB>>)
    /\ \E names \in RepoLists : GradleStart(names)

NextGradle ==
    /\ \/ Tick /\ UNCHANGED gradleVars
       \/ GradleRow
       \/ \E paths \in SeqsUpTo(ResultPaths, MaxResults), more \in BOOLEAN,
             valid \in BOOLEAN : GradleSearch(paths, more, valid)
       \/ \E paths \in SeqsUpTo(ResultPaths, MaxResults), more \in BOOLEAN :
              GradleMore(paths, more)
       \/ GradleFile
       \/ GradleBreak
       \/ \E exists \in BOOLEAN, reply \in QuotaReplies,
             full_name \in {repo_name, NameMoved} :
              GradleLookup(exists, reply, full_name)
       \/ GradleEnd
    /\ UNCHANGED <<matchVars, searchVars, dataVars>>

SpecGradle == InitGradle /\ [][NextGradle]_vars

(***************************************************************************)
(* Properties.                                                             *)
(***************************************************************************)
\* the request that reached the host last, if any
Sent == last_request.kind /= "none"

\* a call of count_commits has ended
CountEnded == pc = "idle" /\ result.op = "count_commits"

\* C1: no request reaches the host while the host's remaining quota of the
\* resource class the request consumes is below 1.
C1_NoRequestWithoutQuota == Sent => last_request.remaining >= 1

\* C2: every request that reaches the host (repository lookup, commit pages,
\* code-search pages, file contents) was preceded by a run of the guard.
C2_EveryRequestGuarded == Sent => last_request.guarded

\* C3: when the host serves the requests of count_commits and sends its own
\* links, count_commits returns the number of commits of the repository, for
\* each of the counts 0, 1, P, P+1, 2P, 2P+1.
C3_CountIsExact ==
    (CountEnded /\ page_iterator.shape = "host" /\ result.exc /= "GitHubError")
        => (result.exc = "none" /\ result.value = page_iterator.commits)

\* C4: one call of count_commits sends at most 2 commit-listing requests, and
\* sends the second only when the first response carries a last link whose
\* page number is not 1.
C4_AtMostTwoRequests ==
    /\ page_iterator.fetched <= 2
    /\ page_iterator.fetched = 2 =>
         LET last == LastLink(page_iterator.shape, page_iterator.commits)
         IN  /\ last /= <<>>
             /\ ParseNumPages(last).exc = "none"
             /\ ParseNumPages(last).value /= 1

\* C4, witness: a call that sent two requests and returned a count
C4_TwoRequestsSent ==
    CountEnded /\ page_iterator.fetched = 2 /\ result.exc = "none"
    /\ result.value = 2 * PerPage + 1

\* C5: when the last link of the first response has no page parameter, or an
\* empty or non-numeric one, count_commits raises nothing, sends no second
\* request and returns the number of items of the first page.
C5_UnusablePageIsSinglePage ==
    (CountEnded /\ page_iterator.shape \in {"nopage", "blank", "alpha"}
        /\ result.exc /= "GitHubError")
        => /\ result.exc = "none"
           /\ result.value = ItemsOnPage(page_iterator.commits, 1)
           /\ page_iterator.fetched = 1

\* the distinct known repositories of a package
KnownSet(p) == IF p \in DOMAIN packages
               THEN {packages[p][i] : i \in 1..Len(packages[p])}
               ELSE {}

\* the repositories emitted for a package
Emitted(p) == {play_to_github[i].repository :
                  i \in {j \in 1..Len(play_to_github) :
                            play_to_github[j].package_name = p}}

\* the packages read so far
Done == {p \in PackageNames : seen[p].done}

\* match_play_and_github sends nothing to the host
NoHostCall == ~Sent /\ pc = "idle"

\* C6 as claimed: a known package with several distinct known repositories
\* and exactly one extracted link among them gets that link, however many
\* other links were extracted.
C6_OneVerifiedLinkIsEmitted ==
    \A p \in Done :
        (Cardinality(KnownSet(p)) > 1
            /\ Cardinality(seen[p].links \cap KnownSet(p)) = 1)
        => Emitted(p) = seen[p].links \cap KnownSet(p)

\* C6, amended: a known package with several distinct known repositories gets
\* a repository only when its metadata holds exactly one distinct link and
\* that link is a known repository (counted repo_has_manifest.yes); with two
\* or more distinct links nothing is emitted (counted repo_links.gt1).
C6_OnlyLinkIsEmitted ==
    \A p \in Done :
        Cardinality(KnownSet(p)) > 1 =>
            /\ (Cardinality(seen[p].links) = 1 /\ seen[p].links \subseteq KnownSet(p))
                 => (Emitted(p) = seen[p].links /\ seen[p].leaf = "yes")
            /\ Cardinality(seen[p].links) > 1
                 => (Emitted(p) = {} /\ seen[p].leaf = "gt1")

\* C6, witness: known_repos = [a/b, a/c], extracted links {a/b}, a/b emitted;
\* and a package of two links, one of them known, with nothing emitted
C6_Example ==
    /\ packages["p2"] = <<RepoAB, RepoAC>>
    /\ seen["p2"].done /\ seen["p2"].links = {RepoAB} /\ Emitted("p2") = {RepoAB}
    /\ packages["p1"] = <<RepoAB, RepoAC>>
    /\ seen["p1"].done /\ seen["p1"].links = {RepoAB, RepoXY} /\ Emitted("p1") = {}

C9_EmittedPairsAreVerified ==
    \A i \in 1..Len(play_to_github) :
        LET pair == play_to_github[i]
        IN  /\ pair.package_name \in DOMAIN packages
            /\ seen[pair.package_name].done
            /\ pair.repository \in seen[pair.package_name].links
            /\ pair.repository \in KnownSet(pair.package_name)

\* C9, witness: a pair emitted for one package, while another package linked
\* to a repository that is not known for it and got none
C9_Example ==
    /\ Len(play_to_github) = 1
    /\ \E p \in Done : seen[p].leaf = "yes" /\ Emitted(p) = {RepoAB}
    /\ \E p \in Done : seen[p].leaf = "no" /\ seen[p].links = {RepoXY}

\* the packages read so far that took the branch leaf
Took(leaf) == Cardinality({p \in Done : seen[p].leaf = leaf})

\* C10: every package read took exactly one branch, counted once: a package
\* that is no key of the mapping is counted unknown and emits nothing; the
\* counters add up; at most one pair is emitted per package.
C10_OneClassification ==
    /\ stats.all = Cardinality(Done)
    /\ stats.unknown_package = Took("unknown_package")
    /\ stats.details.empty = Took("empty")
    /\ stats.repo_links.lt1 = Took("lt1")
    /\ stats.repo_links.gt1 = Took("gt1")
    /\ stats.repo_has_manifest.yes = Took("yes")
    /\ stats.repo_has_manifest.no = Took("no")
    /\ stats.all = stats.unknown_package + stats.details.empty
                     + stats.details.non_empty
    /\ stats.details.non_empty = stats.repo_links.lt1 + stats.repo_links.eq1
                                   + stats.repo_links.gt1
    /\ stats.repo_links.eq1 = stats.repo_has_manifest.yes
                                + stats.repo_has_manifest.no
    /\ \A p \in Done :
        /\ seen[p].leaf \in {"unknown_package", "empty", "lt1", "gt1", "yes", "no"}
        /\ p \notin DOMAIN packages
             => (seen[p].leaf = "unknown_package" /\ Emitted(p) = {})
        /\ Cardinality({j \in 1..Len(play_to_github) :
                           play_to_github[j].package_name = p}) <= 1

\* C10, witness: the run has ended after three packages, one of them unknown,
\* one with a pair emitted
C10_Example ==
    /\ match_pc = "done"
    /\ Done = PackageNames
    /\ stats.unknown_package = 1
    /\ stats.repo_has_manifest.yes = 1
    /\ stats.repo_links.gt1 = 1

\* the texts of the string nodes of a value, at any depth inside lists and
\* the values of objects
RECURSIVE StringNodes(_)
StringNodes(v) ==
    IF v.t = "str" THEN {v.s}
    ELSE IF v.t = "list" THEN UNION {StringNodes(v.l[i]) : i \in 1..Len(v.l)}
    ELSE IF v.t = "dict" THEN UNION {StringNodes(v.d[i].v) : i \in 1..Len(v.d)}
    ELSE {}

\* the matches of the pattern in each text, as re.findall gives them
MatchesOfText(t) ==
    CASE t = TextUrl -> {<<"f", "o", "o", "/", "b", "a", "r">>}
      [] t = TextReadme -> {<<"b", "a", "z", "/", "q", "u", "x">>}
      [] t = TextUpper -> {<<"F", "o", "o", "/", "b", "a", "r">>}
      [] t = TextTwice -> {<<"f", "o", "o", "/", "b", "a", "r">>}
      [] t = TextTwo -> {<<"a", "/", "b">>, <<"a", "/", "c">>}
      [] OTHER -> {}

\* C11: the links extracted from a value are exactly the distinct matches of
\* the pattern in its string nodes at any depth inside lists and object
\* values; numbers, booleans, null and object keys give nothing, a match found
\* several times is there once, in the case captured; the value
\* {"a": [link to foo/bar, plain text], "b": {"c": text with baz/qux/blob/...}}
\* gives exactly {foo/bar, baz/qux}.
C11_LinksAreTheMatches ==
    search_pc /= "new" =>
        /\ links_first = UNION {MatchesOfText(t) : t \in StringNodes(haystack)}
        /\ haystack = NestedExample => links_first = {<<"f", "o", "o", "/", "b", "a", "r">>, <<"b", "a", "z", "/", "q", "u", "x">>}

\* C11, witness: the nested example searched, and a value whose string nodes
\* hold the same link twice and two links in one text
C11_Example ==
    /\ search_pc = "once"
    /\ \/ haystack = NestedExample /\ Cardinality(links_first) = 2
       \/ /\ haystack = JList(<<JList(<<JStr(TextUrl)>>), JStr(TextTwo)>>)
          /\ Cardinality(links_first) = 3

AsciiOwner == LowerChars \cup UpperChars \cup DigitSet \cup {"-"}
AsciiName == AsciiOwner \cup {"_", "."}

WellFormed(full_name) ==
    \E i \in 1..Len(full_name) :
        /\ full_name[i] = "/"
        /\ i > 1 /\ i < Len(full_name)
        /\ \A j \in 1..(i - 1) : full_name[j] \in AsciiOwner
        /\ \A j \in (i + 1)..Len(full_name) : full_name[j] \in AsciiName

GetRepoEnded == pc = "idle" /\ result.op = "get_repo"

\* C13: get_repo on a name that is not owner/name fails with ValueError
\* before any request or quota query reaches the host; on a well-formed name
\* the only request it sends is one guarded lookup of the parsed owner and
\* name.
C13_MalformedNameSendsNothing ==
    GetRepoEnded =>
        IF WellFormed(result.full_name)
        THEN /\ result.exc /= "ValueError"
             /\ result.requests <= 1
             /\ result.requests = 1 =>
                    /\ last_request.kind = "repo"
                    /\ last_request.guarded
                    /\ \E i \in 1..Len(result.full_name) :
                           /\ result.full_name[i] = "/"
                           /\ last_request.target =
                                  <<SubSeq(result.full_name, 1, i - 1),
                                    SubSeq(result.full_name, i + 1,
                                           Len(result.full_name))>>
        ELSE /\ result.exc = "ValueError"
             /\ result.requests = 0
             /\ result.queries = 0

(***************************************************************************)
(* RateLimitedGitHub._wait_for_ratelimit.                                  *)
(***************************************************************************)
\* the latest step ran the guard and its request reached the host
GuardedRequestSent ==
    /\ last_guard.ran /\ last_guard.sent
    /\ Sent /\ last_request.guarded
    /\ last_request.kind = last_guard.kind
    /\ last_request.slept = last_guard.guard.slept

C19_FailedQueryIsFatal ==
    (last_guard.ran /\ last_guard.guard.quota_from = "error") =>
        /\ last_guard.guard.raised
        /\ ~last_guard.sent
        /\ result.op = "get_repo" =>
               /\ result.exc = "GitHubError"
               /\ result.requests = 0
               /\ result.queries = 1

C19_Example ==
    /\ last_guard.ran /\ last_guard.guard.quota_from = "error"
    /\ last_guard.kind = "repo"
    /\ result.op = "get_repo" /\ result.exc = "GitHubError"
    /\ result.requests = 0

\* C20: when the reply of GET /rate_limit has no entry for the resource, the
\* guard reads remaining 0 and reset 0, its wait is not positive, it does not
\* sleep and raises nothing, and the request is sent.
C20_NoEntryMeansNoWait ==
    (last_guard.ran /\ last_guard.guard.quota_from = "noentry") =>
        LET g == last_guard.guard
        IN  /\ g.keys = {}
            /\ g.remaining = 0 /\ g.reset = 0
            /\ g.reset - g.now + 1 <= 0
            /\ g.slept = 0
            /\ ~g.raised
            /\ GuardedRequestSent

C20_Example ==
    /\ last_guard.ran /\ last_guard.guard.quota_from = "noentry"
    /\ last_guard.guard.slept = 0
    /\ GuardedRequestSent
    /\ last_request.quota_from = "noentry"
    /\ last_request.status = 403

\* the three rate headers
RateKeys == {"limit", "remaining", "reset"}

Met == {i \in 1..Len(rows) : i < row_ix \/ (i = row_ix /\ data_pc /= "row")}

\* the rows whose data was written
Written == {written[k] : k \in 1..Len(written)}

Malformed(row) == Len(row) > 1 /\ ~WellFormed(row[2])

\* C14: a row with a malformed repository name is skipped: main writes no
\* row for it, does not end at it, and goes on to the rows after it.
C14_MalformedRowIsSkipped ==
    \A i \in Met :
        Malformed(rows[i]) =>
            /\ i \notin Written
            /\ ~(data_pc = "aborted" /\ row_ix = i)
            /\ data_pc \in {"done", "aborted"} => row_ix > i

\* C15: when the host answers the lookup of a well-formed name with 404,
\* get_repo returns None without an error, no commits are requested, no row
\* is written for the repository, and main goes on to the next row.
C15_AbsentRepoIsSkipped ==
    \A i \in Met :
        outcome[i].host = 404 =>
            /\ outcome[i].exc = "none" /\ outcome[i].repo = 0
            /\ outcome[i].commit_requests = 0
            /\ i \notin Written
            /\ row_ix > i

C15_Example ==
    /\ Len(rows) = 2
    /\ outcome[1].host = 404 /\ outcome[1].commit_requests = 0
    /\ outcome[1].exc = "none" /\ outcome[1].repo = 0
    /\ WellFormed(rows[1][2])
    /\ Written = {2}
    /\ data_pc = "done"

\* C16: a GitHubError with a code other than 422 raised while the gradle
\* files of a repository are downloaded ends the run, and the download of
\* that repository is not started again.
C16_OtherFailuresAbort ==
    /\ (failure /= 0 /\ failure /= ValidationFailed) => gradle_pc = "aborted"
    /\ ~retried

(***************************************************************************)
(* RecursiveSearch: keys and paths.                                        *)
(***************************************************************************)
\* the keys of the objects of a value, at any depth
RECURSIVE KeysOf(_)
KeysOf(v) ==
    IF v.t = "list" THEN UNION {KeysOf(v.l[i]) : i \in 1..Len(v.l)}
    ELSE IF v.t = "dict"
    THEN {v.d[i].k : i \in 1..Len(v.d)} \cup UNION {KeysOf(v.d[i].v) : i \in 1..Len(v.d)}
    ELSE {}

\* the links in a set of texts
LinksIn(texts) == UNION {{FindAll(t)[i] : i \in 1..Len(FindAll(t))} : t \in texts}

\* the value with every key replaced by its position in its object
RECURSIVE Rekeyed(_)
Rekeyed(v) ==
    IF v.t = "list" THEN JList([i \in 1..Len(v.l) |-> Rekeyed(v.l[i])])
    ELSE IF v.t = "dict"
    THEN JDict([i \in 1..Len(v.d) |-> [k |-> Str(i), v |-> Rekeyed(v.d[i].v)]])
    ELSE v

\* the matches of a list of results, in their order
MatchList(rs) == [i \in 1..Len(rs) |-> rs[i].match]

\* paths a search may start from
StartPaths == {<<>>, <<0>>, <<TextUrl, 1>>}

\* C21: the pattern is applied to string values only; the keys of objects go
\* into the path and are never searched, so a link that occurs only in keys
\* is not extracted, and neither the keys nor the path a search starts from
\* change the matches returned or their order.
C21_KeysAreNotSearched ==
    search_pc = "once" =>
        /\ links_first = LinksIn(StringNodes(haystack))
        /\ \A m \in LinksIn(KeysOf(haystack)) \ LinksIn(StringNodes(haystack)) :
               m \notin links_first
        /\ MatchList(Search(Rekeyed(haystack), <<>>)) = MatchList(results)
        /\ \A path \in StartPaths :
               MatchList(Search(haystack, path)) = MatchList(results)

\* C21, example: an object whose only link is its key
C21_Example ==
    /\ search_pc = "once"
    /\ haystack = JDict(<<[k |-> TextUrl, v |-> JStr(TextPlain)]>>)
    /\ LinksIn(KeysOf(haystack)) = {<<"f", "o", "o", "/", "b", "a", "r">>}
    /\ results = <<>>
    /\ links_first = {}

=============================================================================
